---- MODULE Spec2Model ----
(***************************************************************************)
(* Band Music conversion platform: the job registry (JobService / the      *)
(* legacy jobs dictionary), the two pipeline orchestrators (OMRPipeline,   *)
(* AMTPipeline), the stage processors they call and the background tasks   *)
(* (process_omr_job / process_amt_job) that drive them.                    *)
(*                                                                         *)
(* Optional values are sequences of length at most one: None is <<>> and   *)
(* a present value v is <<v>>.  A path is a record [dir, stem, ext]; the   *)
(* file system is a function from the existing paths to their content.     *)
(* An exception is a record [type, msg]; str(e) is e.msg.                  *)
(***************************************************************************)
EXTENDS Integers, Sequences, FiniteSets, TLC

\* Number of uploads accepted in one behaviour (and of distinct job IDs).
MaxJobs == 2

\* Number of times the environment goes wrong in one behaviour (a call of an
\* external tool fails, an output file is removed).
MaxFaults == 1

JobIds == 1..MaxJobs

None == <<>>

Some(v) == <<v>>

Apps == {"legacy", "refactored"}

(***************************************************************************)
(* settings.py                                                             *)
(***************************************************************************)
omr_allowed_extensions == {".png", ".jpg", ".jpeg", ".pdf"}

amt_allowed_extensions == {".mp3", ".wav", ".ogg", ".m4a"}

\* main.py, upload_image_for_omr / upload_audio_for_amt: their own lists
legacy_omr_allowed_extensions == {".png", ".jpg", ".jpeg", ".pdf"}

legacy_amt_allowed_extensions == {".mp3", ".wav", ".ogg", ".m4a", ".flac"}

(***************************************************************************)
(* Paths and files                                                         *)
(***************************************************************************)
Path(dir, stem, ext) == [dir |-> dir, stem |-> stem, ext |-> ext]

\* settings.output_dir / f"{p.stem}{tag}{ext}"
OutputPath(p, tag, ext) == Path("outputs", p.stem \o tag, ext)

\* variant of lower() that keeps the case
keep_case(s) == s

\* str.lower() on the extensions and instrument names that occur
lower(s) ==
    CASE s = ".PNG" -> ".png"
      [] s = ".PDF" -> ".pdf"
      [] s = ".MP3" -> ".mp3"
      [] s = ".FLAC" -> ".flac"
      [] s = "Piano" -> "piano"
      [] s = "TRUMPET" -> "trumpet"
      [] s = "Trombone" -> "trombone"
      [] OTHER -> s

\* Path(filename).suffix
suffix(filename) == filename.ext

exists(files, p) == p \in DOMAIN files

write(files, p, content) == (p :> content) @@ files

unlink(files, p) == [q \in (DOMAIN files) \ {p} |-> files[q]]

\* content of an artifact: where it comes from, and the General MIDI
\* program it carries (None when the stage did not set one)
Content(origin, program) == [origin |-> origin, program |-> program]

\* an artifact computed from another one inherits a placeholder origin
Derived(files, input) ==
    Content(IF files[input].origin = "mock" THEN "mock" ELSE "tool",
            files[input].program)

(***************************************************************************)
(* Results of a call: it returns a value or raises                         *)
(***************************************************************************)
Exc(type, msg) == [type |-> type, msg |-> msg]

Raise(e, files) == [exc |-> Some(e), ret |-> None, files |-> files]

Return(v, files) == [exc |-> None, ret |-> Some(v), files |-> files]

raised(r) == r.exc # None

str(e) == e.msg

(***************************************************************************)
(* Stage processors.  `outcome` is what the external tool does on this     *)
(* call; the operator is the processor's code around it.                   *)
(***************************************************************************)
cleanup_outcomes == {"ok", "oserror"}

\* variant of cleanup that leaves the file in place
cleanup_keep(cleanup_files, file_path, outcome, files) == Return(file_path, files)

\* OMRProcessor.cleanup / MusicConverter.cleanup / AMTProcessor.cleanup:
\* Path.unlink() of an existing file, which the operating system may refuse
cleanup(cleanup_files, file_path, outcome, files) ==
    IF cleanup_files /\ exists(files, file_path)
    THEN IF outcome = "ok"
         THEN Return(file_path, unlink(files, file_path))
         ELSE Raise(Exc("OSError", "Permission denied"), files)
    ELSE Return(file_path, files)

pdf_outcomes == {"ok", "import_error", "no_images"}

_pdf_to_image(pdf_path, outcome, files) ==
    LET output_path == OutputPath(pdf_path, "_converted", ".png")
    IN  CASE outcome = "ok" ->
               Return(output_path, write(files, output_path, Content("tool", None)))
          [] outcome = "import_error" ->
               Raise(Exc("RuntimeError", "PDF conversion requires pdf2image library"), files)
          [] OTHER ->
               Raise(Exc("RuntimeError",
                         "PDF conversion failed: " \o "Failed to convert PDF to image"), files)

oemer_outcomes ==
    {"ok", "no_output", "import_error", "assertion", "value_error_max", "value_error", "error"}

\* OMRProcessor._create_mock_musicxml
_create_mock_musicxml(output_path, files) ==
    write(files, output_path, Content("mock", None))

_run_oemer(image_path, outcome, files) ==
    LET output_path == OutputPath(image_path, "", ".musicxml")
    IN  CASE outcome = "ok" ->
               Return(output_path, write(files, output_path, Content("tool", None)))
          [] outcome = "no_output" ->
               Return(output_path, _create_mock_musicxml(output_path, files))
          [] outcome = "import_error" ->
               Raise(Exc("RuntimeError", "Oemer library not available."), files)
          [] outcome = "assertion" ->
               Raise(Exc("RuntimeError", "OMR processing failed. This could be due to"), files)
          [] outcome = "value_error_max" ->
               Raise(Exc("RuntimeError", "No musical stafflines detected in the image."), files)
          [] outcome = "value_error" ->
               Raise(Exc("RuntimeError",
                         "OMR processing failed: " \o "bad value"
                            \o ". Please check the image quality."), files)
          [] OTHER ->
               Raise(Exc("RuntimeError",
                         "OMR processing failed: " \o "crash"
                            \o ". Please check that the image contains valid sheet music."),
                     files)

\* OMRProcessor.process_image; env = [pdf, oemer]
process_image(input_path, env, files) ==
    IF ~exists(files, input_path)
    THEN Raise(Exc("FileNotFoundError", "Input file not found"), files)
    ELSE IF lower(input_path.ext) \notin omr_allowed_extensions
    THEN Raise(Exc("ValueError", "Unsupported file format: " \o input_path.ext), files)
    ELSE LET pdf == IF lower(input_path.ext) = ".pdf"
                    THEN _pdf_to_image(input_path, env.pdf, files)
                    ELSE Return(input_path, files)
             r   == IF raised(pdf) THEN pdf ELSE _run_oemer(pdf.ret[1], env.oemer, pdf.files)
         IN  IF raised(r)
             THEN Raise(Exc("RuntimeError", "OMR processing failed: " \o str(r.exc[1])),
                        r.files)
             ELSE r

converter_outcomes == {"ok", "import_error", "error"}

\* MusicConverter.musicxml_to_midi
musicxml_to_midi(input_path, outcome, files) ==
    IF ~exists(files, input_path)
    THEN Raise(Exc("FileNotFoundError", "MusicXML file not found"), files)
    ELSE LET output_path == OutputPath(input_path, "", ".mid")
         IN  CASE outcome = "ok" ->
                    Return(output_path, write(files, output_path, Derived(files, input_path)))
               [] outcome = "import_error" ->
                    Raise(Exc("RuntimeError",
                              "MusicXML to MIDI conversion requires music21 library"), files)
               [] OTHER ->
                    Raise(Exc("RuntimeError", "Conversion failed: " \o "parse error"), files)

\* AudioSynthesizer.INSTRUMENTS
INSTRUMENTS == [piano |-> 0, trombone |-> 57, trumpet |-> 56]

mido_outcomes == {"ok", "import_error"}

\* AudioSynthesizer._apply_instrument_change
_apply_instrument_change(midi_path, instrument, outcome, files) ==
    LET modified_path == OutputPath(midi_path, "_instrument", ".mid")
    IN  IF outcome = "ok"
        THEN Return(modified_path,
                    write(files, modified_path,
                          Content(Derived(files, midi_path).origin,
                                  Some(INSTRUMENTS[instrument]))))
        ELSE Return(midi_path, files)

fluidsynth_outcomes == {"ok", "not_found", "nonzero", "timeout", "no_output", "export_error"}

\* AudioSynthesizer.midi_to_audio with output_format = "mp3"; env = [mido, fluidsynth]
midi_to_audio(cleanup_files, input_path, instrument, env, files) ==
    IF ~exists(files, input_path)
    THEN Raise(Exc("FileNotFoundError", "MIDI file not found"), files)
    ELSE LET instr    == IF lower(instrument) \in DOMAIN INSTRUMENTS
                         THEN lower(instrument) ELSE "piano"
             modified == _apply_instrument_change(input_path, instr, env.mido, files)
             modified_midi_path == modified.ret[1]
             wav_path == OutputPath(input_path, "", ".wav")
             output_path == OutputPath(input_path, "", ".mp3")
             withwav  == write(modified.files, wav_path, Derived(modified.files, modified_midi_path))
             withmp3  == write(withwav, output_path, Derived(withwav, wav_path))
             nowav    == IF cleanup_files THEN unlink(withmp3, wav_path) ELSE withmp3
             nomod    == IF modified_midi_path # input_path
                         THEN unlink(nowav, modified_midi_path) ELSE nowav
         IN  CASE env.fluidsynth = "ok" -> Return(output_path, nomod)
               [] env.fluidsynth = "not_found" ->
                    Raise(Exc("RuntimeError", "Synthesis failed: " \o "No such file: fluidsynth"),
                          modified.files)
               [] env.fluidsynth = "nonzero" ->
                    Raise(Exc("RuntimeError",
                              "Synthesis failed: " \o "FluidSynth failed with code 1"),
                          modified.files)
               [] env.fluidsynth = "timeout" ->
                    Raise(Exc("RuntimeError", "Synthesis failed: " \o "timed out after 60 seconds"),
                          modified.files)
               [] env.fluidsynth = "no_output" ->
                    Raise(Exc("RuntimeError",
                              "Synthesis failed: " \o "FluidSynth did not create output file"),
                          modified.files)
               [] OTHER ->
                    Raise(Exc("RuntimeError", "Synthesis failed: " \o "mp3 export failed"),
                          withwav)

basic_pitch_outcomes == {"ok", "no_midi", "import_error", "error"}

\* AMTProcessor._create_mock_midi
_create_mock_midi(output_path, mido, files) ==
    IF mido = "ok"
    THEN Return(output_path, write(files, output_path, Content("mock", Some(0))))
    ELSE Raise(Exc("RuntimeError", "Mock MIDI creation requires mido library"), files)

\* AMTProcessor._run_basic_pitch
_run_basic_pitch(audio_path, outcome, mido, files) ==
    LET output_path == OutputPath(audio_path, "", ".mid")
    IN  IF outcome = "ok"
        THEN Return(output_path, write(files, output_path, Content("tool", None)))
        ELSE _create_mock_midi(output_path, mido, files)

\* AMTProcessor.process_audio; env = [basic_pitch, mido]
process_audio(input_path, env, files) ==
    IF ~exists(files, input_path)
    THEN Raise(Exc("FileNotFoundError", "Input file not found"), files)
    ELSE IF lower(input_path.ext) \notin amt_allowed_extensions
    THEN Raise(Exc("ValueError", "Unsupported file format: " \o input_path.ext), files)
    ELSE LET r == _run_basic_pitch(input_path, env.basic_pitch, env.mido, files)
         IN  IF raised(r)
             THEN Raise(Exc("RuntimeError", "AMT processing failed: " \o str(r.exc[1])),
                        r.files)
             ELSE r

renderer_outcomes ==
    {"ok", "lilypond_missing", "midi2ly_missing", "midi2ly_nonzero", "midi2ly_timeout",
     "lilypond_nonzero_pdf", "lilypond_no_pdf", "lilypond_timeout"}

\* ScoreRenderer.midi_to_pdf
midi_to_pdf(input_path, outcome, files) ==
    IF ~exists(files, input_path)
    THEN Raise(Exc("FileNotFoundError", "MIDI file not found"), files)
    ELSE LET ly_path  == OutputPath(input_path, "", ".ly")
             pdf_path == OutputPath(input_path, "", ".pdf")
             withly   == write(files, ly_path, Derived(files, input_path))
             withpdf  == write(withly, pdf_path, Derived(withly, ly_path))
         IN  CASE outcome \in {"ok", "lilypond_nonzero_pdf"} -> Return(pdf_path, withpdf)
               [] outcome = "lilypond_missing" ->
                    Raise(Exc("RuntimeError", "LilyPond not found. Please install LilyPond"), files)
               [] outcome = "midi2ly_missing" ->
                    Raise(Exc("RuntimeError", "midi2ly not found. Please install LilyPond"), files)
               [] outcome = "midi2ly_nonzero" ->
                    Raise(Exc("RuntimeError", "MIDI to LilyPond conversion failed: " \o "stderr"),
                          files)
               [] outcome = "midi2ly_timeout" ->
                    Raise(Exc("RuntimeError", "PDF rendering timed out"), files)
               [] outcome = "lilypond_no_pdf" ->
                    Raise(Exc("RuntimeError", "PDF was not created. LilyPond output: " \o "stderr"),
                          withly)
               [] OTHER ->
                    Raise(Exc("RuntimeError", "PDF rendering timed out"), withly)

(***************************************************************************)
(* Job registry: JobService (refactored routes)                            *)
(***************************************************************************)
\* Job dataclass as create_job builds it.  JobStatus is a str enumeration: a
\* member equals its value, but only a member has `.value`; status_enum says
\* whether the status attribute holds a member (TRUE) or a plain str (FALSE).
\* to_dict is the attribute hasattr() finds besides the fields: the method,
\* until an instance attribute of that name hides it.
Job(job_id, job_type, filename, upload_path, now) ==
    [job_id |-> job_id, type |-> job_type, status |-> "uploaded", status_enum |-> TRUE,
     filename |-> filename, upload_path |-> upload_path,
     output_path |-> None, error |-> None, step |-> None, progress |-> 0,
     created_at |-> now, updated_at |-> now, to_dict |-> "method"]

\* datetime.utcnow() when the record of job_id is written: time is counted
\* per job, in writes of its record, so the call returns an instant later
\* than the last timestamp stored under that ID
utcnow(J, job_id) == IF job_id \in DOMAIN J THEN J[job_id].updated_at + 1 ELSE 1

create_job(J, job_id, job_type, filename, upload_path) ==
    (job_id :> Job(job_id, job_type, filename, upload_path, utcnow(J, job_id))) @@ J

get_job(J, job_id) == IF job_id \in DOMAIN J THEN Some(J[job_id]) ELSE None

\* setattr for every key of kwargs that is an attribute of the job
\* variant of update_job that creates the record of an unknown ID
update_job_upsert(J, job_id, kwargs) ==
    LET filename == [stem |-> "score", ext |-> ".png"]
        job == IF job_id \in DOMAIN J THEN J[job_id]
               ELSE Job(job_id, "omr", filename, Path("uploads", ToString(job_id), ".png"), 0)
    IN  (job_id :> [key \in DOMAIN job |->
                      CASE key = "updated_at" -> utcnow(J, job_id)
                        [] key \in DOMAIN kwargs -> kwargs[key]
                        [] OTHER -> job[key]]) @@ J

update_job(J, job_id, kwargs) ==
    IF job_id \in DOMAIN J
    THEN [J EXCEPT ![job_id] =
            [key \in DOMAIN J[job_id] |->
                CASE key = "updated_at" -> utcnow(J, job_id)
                  [] key \in DOMAIN kwargs -> kwargs[key]
                  [] OTHER -> J[job_id][key]]]
    ELSE J

\* step, progress, error, output_path are Optional arguments; status is a
\* JobStatus member
\* variant of update_status that also passes on the arguments left at None
update_status_all(J, job_id, status, step, progress, error, output_path) ==
    update_job(J, job_id,
               [status |-> status, status_enum |-> TRUE, step |-> step,
                progress |-> IF progress = None THEN 0 ELSE progress[1],
                error |-> error, output_path |-> output_path])

update_status(J, job_id, status, step, progress, error, output_path) ==
    LET given   == [step |-> step, progress |-> progress,
                    error |-> error, output_path |-> output_path]
        keys    == {"status", "status_enum"} \cup {k \in DOMAIN given : given[k] # None}
        updates == [k \in keys |->
                      CASE k = "status" -> status
                        [] k = "status_enum" -> TRUE
                        [] k = "progress" -> progress[1]
                        [] OTHER -> given[k]]
    IN  update_job(J, job_id, updates)

mark_processing(J, job_id, step, progress) ==
    update_status(J, job_id, "processing", Some(step), Some(progress), None, None)

\* variant of mark_completed that records no output path
mark_completed_no_path(J, job_id, output_path) ==
    update_status(J, job_id, "completed", None, Some(100), None, None)

mark_completed(J, job_id, output_path) ==
    update_status(J, job_id, "completed", None, Some(100), None, Some(output_path))

\* variant of mark_failed that stores the status as a plain str
mark_failed_plain(J, job_id, error) ==
    update_job(J, job_id, [status |-> "failed", status_enum |-> FALSE, error |-> Some(error)])

\* variant of mark_failed that records a fixed text instead of the message
mark_failed_generic(J, job_id, error) ==
    update_status(J, job_id, "failed", None, None, Some("Processing failed"), None)

mark_failed(J, job_id, error) ==
    update_status(J, job_id, "failed", None, None, Some(error), None)

(***************************************************************************)
(* Job table of the legacy application (main.py)                           *)
(***************************************************************************)
\* the dictionary upload_image_for_omr / upload_audio_for_amt stores
LegacyJob(job_type, filename, upload_path) ==
    [type |-> job_type, status |-> "uploaded", filename |-> filename,
     upload_path |-> upload_path, output_path |-> None, error |-> None,
     step |-> None, progress |-> 0]

\* jobs[job_id].update(status_data)
update_job_status(J, job_id, status_data) ==
    IF job_id \in DOMAIN J
    THEN [J EXCEPT ![job_id] = status_data @@ J[job_id]]
    ELSE J

\* jobs[job_id][key] = value
set_item(J, job_id, key, value) == [J EXCEPT ![job_id] = (key :> value) @@ J[job_id]]

(***************************************************************************)
(* State                                                                   *)
(***************************************************************************)
VARIABLES
    app,            \* which application serves: "legacy" (main.py) or "refactored"
    cleanup_files,  \* settings.cleanup_files
    jobs,           \* JobService._jobs, or main.jobs: job ID -> record
    files,          \* upload and output directories: path -> content
    task,           \* background task of each job: its position and locals
    running,        \* the job whose background task holds the event loop, or 0
    run,            \* what the running pipeline run did so far: the payloads its
                    \* callback received, the stages it invoked, whether an
                    \* external tool went wrong, the stage that raised, and
                    \* what process returned or raised
    response,       \* the HTTP response being sent, or None
    faults,         \* how many times the environment went wrong so far: a call
                    \* of an external tool, or an output file removed
    calls           \* how many registry calls code outside the job flow made

vars == <<app, cleanup_files, jobs, files, task, running, run, response, faults, calls>>

NoJob == 0

Filenames ==
    {[stem |-> "score", ext |-> ".png"], [stem |-> "score", ext |-> ".PDF"],
     [stem |-> "song", ext |-> ".mp3"], [stem |-> "song", ext |-> ".flac"],
     [stem |-> "notes", ext |-> ".txt"]}

\* instrument query parameter of an OMR upload
Instruments == {"trumpet"}

\* variant of the extension check that accepts every filename
validate_any_extension(filename, allowed_extensions) == TRUE

\* FileService.validate_file_extension
validate_file_extension(filename, allowed_extensions) ==
    lower(suffix(filename)) \in allowed_extensions

\* variant of the ID generator that may hand out an ID already in use
AnyIds == JobIds

\* uuid.uuid4(): an ID no job has.  IDs are opaque, so the first unused one
\* stands for any of them.
\* uuid4 never hands out an ID again, that of a deleted record included
FreshIds ==
    LET unused == JobIds \ (DOMAIN jobs \cup DOMAIN task)
    IN  {id \in unused : \A other \in unused : id <= other}

\* variant of the upload path that keeps the client's file name
UploadPathByName(job_id, filename) == Path("uploads", filename.stem, lower(suffix(filename)))

\* FileService.save_upload / main.py: UPLOAD_DIR / f"{job_id}{file_ext}"
UploadPath(job_id, filename) == Path("uploads", ToString(job_id), lower(suffix(filename)))

\* the background task added by an upload: its arguments (instrument is what
\* process is called with), its position and locals; selector is the
\* instrument query parameter the upload request carried
Task(kind, upload_path, instrument, selector) ==
    [kind |-> kind, pc |-> "scheduled", upload_path |-> upload_path,
     instrument |-> instrument, selector |-> selector,
     musicxml_path |-> None, midi_path |-> None,
     output_path |-> None, exc |-> None]

Response(code, job_id, detail) == [code |-> code, job_id |-> job_id, detail |-> detail]

NoRun ==
    [job |-> NoJob, callbacks |-> <<>>, stages |-> <<>>, toolfailed |-> FALSE,
     failed_at |-> None, ret |-> None, exc |-> None]

Init ==
    /\ app \in Apps
    /\ cleanup_files \in BOOLEAN
    /\ jobs = <<>>
    /\ files = <<>>
    /\ task = <<>>
    /\ running = NoJob
    /\ run = NoRun
    /\ response = None
    /\ faults = 0
    /\ calls = 0

(***************************************************************************)
(* Upload endpoints.  A handler runs on the event loop without awaiting,   *)
(* so it runs only while no background task holds the loop.                *)
(***************************************************************************)
\* routes/omr.py upload_image_for_omr; the route declares no instrument
\* parameter, so the one in the request is dropped and process runs with
\* its default
UploadOMR(filename, instrument) ==
    /\ response = None
    /\ app = "refactored"
    /\ running = NoJob
    /\ IF ~validate_file_extension(filename, omr_allowed_extensions)
       THEN /\ response' = Some(Response(400, None, "Unsupported file type"))
            /\ UNCHANGED <<jobs, files, task>>
       ELSE \E job_id \in FreshIds :
              LET upload_path == UploadPath(job_id, filename)
              IN  /\ files' = write(files, upload_path, Content("upload", None))
                  /\ jobs' = create_job(jobs, job_id, "omr", filename, upload_path)
                  /\ task' = (job_id :> Task("omr", upload_path, "piano", instrument)) @@ task
                  /\ response' = Some(Response(200, Some(job_id), "uploaded"))
    /\ UNCHANGED <<app, cleanup_files, running, run, faults, calls>>

\* routes/amt.py upload_audio_for_amt
UploadAMT(filename) ==
    /\ response = None
    /\ app = "refactored"
    /\ running = NoJob
    /\ IF ~validate_file_extension(filename, amt_allowed_extensions)
       THEN /\ response' = Some(Response(400, None, "Unsupported file type"))
            /\ UNCHANGED <<jobs, files, task>>
       ELSE \E job_id \in FreshIds :
              LET upload_path == UploadPath(job_id, filename)
              IN  /\ files' = write(files, upload_path, Content("upload", None))
                  /\ jobs' = create_job(jobs, job_id, "amt", filename, upload_path)
                  /\ task' = (job_id :> Task("amt", upload_path, "piano", "piano")) @@ task
                  /\ response' = Some(Response(200, Some(job_id), "uploaded"))
    /\ UNCHANGED <<app, cleanup_files, running, run, faults, calls>>

\* main.py upload_image_for_omr: its HTTPException(400) is caught by its own
\* `except Exception` and raised again as HTTPException(500)
LegacyUploadOMR(filename, instrument) ==
    /\ response = None
    /\ app = "legacy"
    /\ running = NoJob
    /\ IF lower(suffix(filename)) \notin legacy_omr_allowed_extensions
       THEN /\ response' = Some(Response(500, None, "400: Unsupported file type"))
            /\ UNCHANGED <<jobs, files, task>>
       ELSE \E job_id \in FreshIds :
              LET upload_path == UploadPath(job_id, filename)
              IN  /\ files' = write(files, upload_path, Content("upload", None))
                  /\ jobs' = (job_id :> (("instrument" :> instrument)
                                          @@ LegacyJob("omr", filename, upload_path)))
                             @@ jobs
                  /\ task' = (job_id :> Task("omr", upload_path, instrument, instrument)) @@ task
                  /\ response' = Some(Response(200, Some(job_id), "uploaded"))
    /\ UNCHANGED <<app, cleanup_files, running, run, faults, calls>>

\* main.py upload_audio_for_amt
LegacyUploadAMT(filename) ==
    /\ response = None
    /\ app = "legacy"
    /\ running = NoJob
    /\ IF lower(suffix(filename)) \notin legacy_amt_allowed_extensions
       THEN /\ response' = Some(Response(500, None, "400: Unsupported file type"))
            /\ UNCHANGED <<jobs, files, task>>
       ELSE \E job_id \in FreshIds :
              LET upload_path == UploadPath(job_id, filename)
              IN  /\ files' = write(files, upload_path, Content("upload", None))
                  /\ jobs' = (job_id :> LegacyJob("amt", filename, upload_path)) @@ jobs
                  /\ task' = (job_id :> Task("amt", upload_path, "piano", "piano")) @@ task
                  /\ response' = Some(Response(200, Some(job_id), "uploaded"))
    /\ UNCHANGED <<app, cleanup_files, running, run, faults, calls>>

\* the server sends the handler's response to the client
SendResponse ==
    /\ response # None
    /\ response' = None
    /\ UNCHANGED <<app, cleanup_files, jobs, files, task, running, run, faults, calls>>

(***************************************************************************)
(* Background task: process_omr_job / process_amt_job and the pipeline     *)
(* run they await.  The pipeline never awaits, so once started the task    *)
(* keeps the event loop until it ends.                                     *)
(***************************************************************************)
\* the status callback each application hands to the pipeline; the status
\* in a payload is a plain str, which the refactored callback stores as it is
status_callback(J, job_id, status_data) ==
    IF app = "legacy"
    THEN update_job_status(J, job_id, status_data)
    ELSE update_job(J, job_id, status_data @@ [status_enum |-> FALSE])

\* variant of StartTask that does not wait for the response to be sent
StartTaskEarly(j) ==
    /\ running = NoJob
    /\ j \in DOMAIN task
    /\ task[j].pc = "scheduled"
    /\ running' = j
    /\ task' = [task EXCEPT ![j].pc = IF task[j].kind = "omr" THEN "omr_cb"
                                      ELSE "transcription_cb"]
    /\ run' = [NoRun EXCEPT !.job = j]
    /\ UNCHANGED <<app, cleanup_files, jobs, files, response, faults, calls>>

\* variant of StartTask in which the queued task is dropped without running
DropTask(j) ==
    /\ response = None
    /\ running = NoJob
    /\ j \in DOMAIN task
    /\ task[j].pc = "scheduled"
    /\ task' = [task EXCEPT ![j].pc = "done"]
    /\ UNCHANGED <<app, cleanup_files, jobs, files, running, run, response, faults, calls>>

\* the task is taken from the background queue and calls pipeline.process
StartTask(j) ==
    /\ response = None
    /\ running = NoJob
    /\ j \in DOMAIN task
    /\ task[j].pc = "scheduled"
    /\ running' = j
    /\ task' = [task EXCEPT ![j].pc = IF task[j].kind = "omr" THEN "omr_cb"
                                      ELSE "transcription_cb"]
    /\ run' = [NoRun EXCEPT !.job = j]
    /\ UNCHANGED <<app, cleanup_files, jobs, files, response, faults, calls>>

\* the calls of env (a record of outcomes) that go wrong
Faults(env) == Cardinality({k \in DOMAIN env : env[k] # "ok"})

At(j, kind, pc) ==
    /\ running = j
    /\ j \in DOMAIN task
    /\ task[j].kind = kind
    /\ task[j].pc = pc

\* status_callback(job_id, payload) inside the pipeline, then go on at pc `next`
Callback(j, payload, next) ==
    /\ jobs' = status_callback(jobs, j, payload)
    /\ run' = [run EXCEPT !.callbacks = Append(@, payload)]
    /\ task' = [task EXCEPT ![j].pc = next]
    /\ UNCHANGED <<app, cleanup_files, files, running, response, faults, calls>>

\* variant of Stage that calls the stage again when it raised
StageRetry(j, name, r, failed, n, var, next) ==
    /\ faults + n <= MaxFaults
    /\ faults' = faults + n
    /\ files' = r.files
    /\ task' = [task EXCEPT ![j] =
                  IF raised(r) THEN @ ELSE [@ EXCEPT !.pc = next, ![var] = r.ret]]
    /\ run' = [run EXCEPT !.stages = Append(@, name),
                          !.toolfailed = @ \/ failed]
    /\ UNCHANGED <<app, cleanup_files, jobs, running, response, calls>>

\* a stage call returned r: keep its result in local `var` and go on, or
\* enter the except block of process
Stage(j, name, r, failed, n, var, next) ==
    /\ faults + n <= MaxFaults
    /\ faults' = faults + n
    /\ files' = r.files
    /\ task' = [task EXCEPT ![j] =
                  IF raised(r)
                  THEN [@ EXCEPT !.pc = "except", !.exc = r.exc]
                  ELSE [@ EXCEPT !.pc = next, ![var] = r.ret]]
    /\ run' = [run EXCEPT !.stages = Append(@, name),
                          !.toolfailed = @ \/ failed,
                          !.failed_at = IF raised(r)
                                        THEN Some([stage |-> name, exc |-> r.exc[1]])
                                        ELSE @]
    /\ UNCHANGED <<app, cleanup_files, jobs, running, response, calls>>

(***************************************************************************)
(* OMRPipeline.process                                                     *)
(***************************************************************************)
\* variant of the first payload that leaves the job in status uploaded
omr_payload_uploaded == [status |-> "uploaded", step |-> Some("omr"), progress |-> 25]

omr_payload == [status |-> "processing", step |-> Some("omr"), progress |-> 25]

\* variant of the conversion payload that reports less than the payload before
conversion_payload_lower ==
    [status |-> "processing", step |-> Some("conversion"), progress |-> 10]

conversion_payload == [status |-> "processing", step |-> Some("conversion"), progress |-> 50]

synthesis_payload == [status |-> "processing", step |-> Some("synthesis"), progress |-> 75]

\* variant of the completed payload that stops short of 100
omr_completed_payload_short == [status |-> "completed", progress |-> 99]

omr_completed_payload == [status |-> "completed", progress |-> 100]

\* variant of the failed payload that carries no error
omr_failed_payload_no_error(e) == [status |-> "failed"]

omr_failed_payload(e) == [status |-> "failed", error |-> Some(str(e))]

OMRCallbackOmr(j) ==
    /\ At(j, "omr", "omr_cb")
    /\ Callback(j, omr_payload, "omr")

OMRStageOmr(j) ==
    /\ At(j, "omr", "omr")
    /\ \E env \in [pdf : pdf_outcomes, oemer : oemer_outcomes] :
         \* pdf2image is called for a PDF only, oemer only on an image
         /\ lower(task[j].upload_path.ext) # ".pdf" => env.pdf = "ok"
         /\ env.pdf # "ok" => env.oemer = "ok"
         /\ Stage(j, "omr", process_image(task[j].upload_path, env, files),
               IF lower(task[j].upload_path.ext) = ".pdf" /\ env.pdf # "ok"
               THEN TRUE ELSE env.oemer # "ok",
               Faults(env), "musicxml_path", "conversion_cb")

OMRCallbackConversion(j) ==
    /\ At(j, "omr", "conversion_cb")
    /\ Callback(j, conversion_payload, "conversion")

OMRStageConversion(j) ==
    /\ At(j, "omr", "conversion")
    /\ \E outcome \in converter_outcomes :
         Stage(j, "conversion", musicxml_to_midi(task[j].musicxml_path[1], outcome, files),
               outcome # "ok", Faults(<<outcome>>), "midi_path", "synthesis_cb")

OMRCallbackSynthesis(j) ==
    /\ At(j, "omr", "synthesis_cb")
    /\ Callback(j, synthesis_payload, "synthesis")

OMRStageSynthesis(j) ==
    /\ At(j, "omr", "synthesis")
    /\ \E env \in [mido : mido_outcomes, fluidsynth : fluidsynth_outcomes] :
         Stage(j, "synthesis",
               midi_to_audio(cleanup_files, task[j].midi_path[1], task[j].instrument,
                             env, files),
               env.fluidsynth # "ok", Faults(env), "output_path", "cleanup")

\* self.omr.cleanup(musicxml_path); self.converter.cleanup(midi_path)
OMRCleanup(j) ==
    /\ At(j, "omr", "cleanup")
    /\ \E o1 \in cleanup_outcomes, o2 \in cleanup_outcomes :
         LET c1 == cleanup(cleanup_files, task[j].musicxml_path[1], o1, files)
             c2 == IF raised(c1) THEN c1
                   ELSE cleanup(cleanup_files, task[j].midi_path[1], o2, c1.files)
         IN  \* unlink is called only with the flag set, the second only
             \* after the first
             /\ ~cleanup_files \/ o1 # "ok" => o2 = "ok"
             /\ ~cleanup_files => o1 = "ok"
             /\ faults + Faults(<<o1, o2>>) <= MaxFaults
             /\ faults' = faults + Faults(<<o1, o2>>)
             /\ files' = c2.files
             /\ task' = [task EXCEPT ![j] =
                           IF raised(c2)
                           THEN [@ EXCEPT !.pc = "except", !.exc = c2.exc]
                           ELSE [@ EXCEPT !.pc = "completed_cb"]]
    /\ UNCHANGED <<app, cleanup_files, jobs, running, run, response, calls>>

\* the completed callback, then `return audio_path`
OMRCallbackCompleted(j) ==
    /\ At(j, "omr", "completed_cb")
    /\ jobs' = status_callback(jobs, j, omr_completed_payload)
    /\ run' = [run EXCEPT !.callbacks = Append(@, omr_completed_payload),
                          !.ret = task[j].output_path]
    /\ task' = [task EXCEPT ![j].pc = "returned"]
    /\ UNCHANGED <<app, cleanup_files, files, running, response, faults, calls>>

\* except Exception as e: the failed callback, then `raise`
OMRExcept(j) ==
    /\ At(j, "omr", "except")
    /\ jobs' = status_callback(jobs, j, omr_failed_payload(task[j].exc[1]))
    /\ run' = [run EXCEPT !.callbacks = Append(@, omr_failed_payload(task[j].exc[1])),
                          !.exc = task[j].exc]
    /\ task' = [task EXCEPT ![j].pc = "raised"]
    /\ UNCHANGED <<app, cleanup_files, files, running, response, faults, calls>>

(***************************************************************************)
(* AMTPipeline.process                                                     *)
(***************************************************************************)
transcription_payload ==
    [status |-> "processing", step |-> Some("transcription"), progress |-> 25]

rendering_payload == [status |-> "processing", step |-> Some("rendering"), progress |-> 75]

amt_completed_payload == [status |-> "completed", progress |-> 100]

amt_failed_payload(e) == [status |-> "failed", error |-> Some(str(e))]

AMTCallbackTranscription(j) ==
    /\ At(j, "amt", "transcription_cb")
    /\ Callback(j, transcription_payload, "transcription")

AMTStageTranscription(j) ==
    /\ At(j, "amt", "transcription")
    /\ \E env \in [basic_pitch : basic_pitch_outcomes, mido : mido_outcomes] :
         \* mido is called only to write the placeholder
         /\ env.basic_pitch = "ok" => env.mido = "ok"
         /\ Stage(j, "transcription", process_audio(task[j].upload_path, env, files),
               env.basic_pitch # "ok", Faults(env), "midi_path", "rendering_cb")

AMTCallbackRendering(j) ==
    /\ At(j, "amt", "rendering_cb")
    /\ Callback(j, rendering_payload, "rendering")

AMTStageRendering(j) ==
    /\ At(j, "amt", "rendering")
    /\ \E outcome \in renderer_outcomes :
         Stage(j, "rendering", midi_to_pdf(task[j].midi_path[1], outcome, files),
               outcome # "ok", Faults(<<outcome>>), "output_path", "cleanup")

\* self.amt.cleanup(midi_path)
AMTCleanup(j) ==
    /\ At(j, "amt", "cleanup")
    /\ \E o1 \in cleanup_outcomes :
         LET c1 == cleanup(cleanup_files, task[j].midi_path[1], o1, files)
         IN  /\ ~cleanup_files => o1 = "ok"
             /\ faults + Faults(<<o1>>) <= MaxFaults
             /\ faults' = faults + Faults(<<o1>>)
             /\ files' = c1.files
             /\ task' = [task EXCEPT ![j] =
                           IF raised(c1)
                           THEN [@ EXCEPT !.pc = "except", !.exc = c1.exc]
                           ELSE [@ EXCEPT !.pc = "completed_cb"]]
    /\ UNCHANGED <<app, cleanup_files, jobs, running, run, response, calls>>

AMTCallbackCompleted(j) ==
    /\ At(j, "amt", "completed_cb")
    /\ jobs' = status_callback(jobs, j, amt_completed_payload)
    /\ run' = [run EXCEPT !.callbacks = Append(@, amt_completed_payload),
                          !.ret = task[j].output_path]
    /\ task' = [task EXCEPT ![j].pc = "returned"]
    /\ UNCHANGED <<app, cleanup_files, files, running, response, faults, calls>>

AMTExcept(j) ==
    /\ At(j, "amt", "except")
    /\ jobs' = status_callback(jobs, j, amt_failed_payload(task[j].exc[1]))
    /\ run' = [run EXCEPT !.callbacks = Append(@, amt_failed_payload(task[j].exc[1])),
                          !.exc = task[j].exc]
    /\ task' = [task EXCEPT ![j].pc = "raised"]
    /\ UNCHANGED <<app, cleanup_files, files, running, response, faults, calls>>

(***************************************************************************)
(* The caller of process: process_omr_job / process_amt_job                *)
(***************************************************************************)

\* routes: job_service.mark_completed(job_id, str(output_path))
MarkCompleted(j) ==
    /\ app = "refactored"
    /\ running = j
    /\ task[j].pc = "returned"
    /\ jobs' = mark_completed(jobs, j, task[j].output_path[1])
    /\ task' = [task EXCEPT ![j].pc = "finished"]
    /\ UNCHANGED <<app, cleanup_files, files, running, run, response, faults, calls>>

\* routes: except Exception as e: job_service.mark_failed(job_id, str(e))
MarkFailed(j) ==
    /\ app = "refactored"
    /\ running = j
    /\ task[j].pc = "raised"
    /\ jobs' = mark_failed(jobs, j, str(task[j].exc[1]))
    /\ task' = [task EXCEPT ![j].pc = "finished"]
    /\ UNCHANGED <<app, cleanup_files, files, running, run, response, faults, calls>>

\* main.py: jobs[job_id]["output_path"] = str(output_path)
LegacySetOutputPath(j) ==
    /\ app = "legacy"
    /\ running = j
    /\ task[j].pc = "returned"
    /\ jobs' = set_item(jobs, j, "output_path", task[j].output_path)
    /\ task' = [task EXCEPT ![j].pc = "set_status"]
    /\ UNCHANGED <<app, cleanup_files, files, running, run, response, faults, calls>>

\* main.py: jobs[job_id]["status"] = "completed"
LegacySetCompleted(j) ==
    /\ app = "legacy"
    /\ running = j
    /\ task[j].pc = "set_status"
    /\ jobs' = set_item(jobs, j, "status", "completed")
    /\ task' = [task EXCEPT ![j].pc = "finished"]
    /\ UNCHANGED <<app, cleanup_files, files, running, run, response, faults, calls>>

\* main.py: except Exception as e: jobs[job_id]["status"] = "failed"
LegacySetFailed(j) ==
    /\ app = "legacy"
    /\ running = j
    /\ task[j].pc = "raised"
    /\ jobs' = set_item(jobs, j, "status", "failed")
    /\ task' = [task EXCEPT ![j].pc = "set_error"]
    /\ UNCHANGED <<app, cleanup_files, files, running, run, response, faults, calls>>

\* main.py: jobs[job_id]["error"] = str(e)
LegacySetError(j) ==
    /\ app = "legacy"
    /\ running = j
    /\ task[j].pc = "set_error"
    /\ jobs' = set_item(jobs, j, "error", Some(str(task[j].exc[1])))
    /\ task' = [task EXCEPT ![j].pc = "finished"]
    /\ UNCHANGED <<app, cleanup_files, files, running, run, response, faults, calls>>

\* process_omr_job / process_amt_job returns: its locals are gone and the
\* event loop is free again
TaskEnd(j) ==
    /\ running = j
    /\ task[j].pc = "finished"
    /\ task' = [task EXCEPT ![j] =
                  [@ EXCEPT !.pc = "done", !.musicxml_path = None, !.midi_path = None,
                            !.output_path = None, !.exc = None]]
    /\ running' = NoJob
    /\ run' = NoRun
    /\ UNCHANGED <<app, cleanup_files, jobs, files, response, faults, calls>>

Next ==
    \/ \E filename \in Filenames, instrument \in Instruments :
          UploadOMR(filename, instrument)
    \/ \E filename \in Filenames : UploadAMT(filename)
    \/ \E filename \in Filenames, instrument \in Instruments :
          LegacyUploadOMR(filename, instrument)
    \/ \E filename \in Filenames : LegacyUploadAMT(filename)
    \/ SendResponse
    \/ \E j \in JobIds : StartTask(j)
    \/ \E j \in JobIds : OMRCallbackOmr(j)
    \/ \E j \in JobIds : OMRStageOmr(j)
    \/ \E j \in JobIds : OMRCallbackConversion(j)
    \/ \E j \in JobIds : OMRStageConversion(j)
    \/ \E j \in JobIds : OMRCallbackSynthesis(j)
    \/ \E j \in JobIds : OMRStageSynthesis(j)
    \/ \E j \in JobIds : OMRCleanup(j)
    \/ \E j \in JobIds : OMRCallbackCompleted(j)
    \/ \E j \in JobIds : OMRExcept(j)
    \/ \E j \in JobIds : AMTCallbackTranscription(j)
    \/ \E j \in JobIds : AMTStageTranscription(j)
    \/ \E j \in JobIds : AMTCallbackRendering(j)
    \/ \E j \in JobIds : AMTStageRendering(j)
    \/ \E j \in JobIds : AMTCleanup(j)
    \/ \E j \in JobIds : AMTCallbackCompleted(j)
    \/ \E j \in JobIds : AMTExcept(j)
    \/ \E j \in JobIds : MarkCompleted(j)
    \/ \E j \in JobIds : MarkFailed(j)
    \/ \E j \in JobIds : LegacySetOutputPath(j)
    \/ \E j \in JobIds : LegacySetCompleted(j)
    \/ \E j \in JobIds : LegacySetFailed(j)
    \/ \E j \in JobIds : LegacySetError(j)
    \/ \E j \in JobIds : TaskEnd(j)

Spec == Init /\ [][Next]_vars

\* one step of the background task of job j once it holds the event loop:
\* a callback, a stage call coming back, the caller's bookkeeping, the end
RunStep(j) ==
    \/ OMRCallbackOmr(j) \/ OMRStageOmr(j)
    \/ OMRCallbackConversion(j) \/ OMRStageConversion(j)
    \/ OMRCallbackSynthesis(j) \/ OMRStageSynthesis(j)
    \/ OMRCleanup(j) \/ OMRCallbackCompleted(j) \/ OMRExcept(j)
    \/ AMTCallbackTranscription(j) \/ AMTStageTranscription(j)
    \/ AMTCallbackRendering(j) \/ AMTStageRendering(j)
    \/ AMTCleanup(j) \/ AMTCallbackCompleted(j) \/ AMTExcept(j)
    \/ MarkCompleted(j) \/ MarkFailed(j)
    \/ LegacySetOutputPath(j) \/ LegacySetCompleted(j)
    \/ LegacySetFailed(j) \/ LegacySetError(j)
    \/ TaskEnd(j)

\* the same program with the event loop running.  A response is sent; a
\* running task goes on, every call of it coming back; and a queued task
\* is started although requests keep arriving, because the loop runs its
\* ready coroutines in turn and the task is part of the coroutine that
\* sent the upload's response.
SpecLive ==
    /\ Init /\ [][Next]_vars
    /\ WF_vars(SendResponse)
    /\ \A j \in JobIds : SF_vars(StartTask(j)) /\ WF_vars(RunStep(j))

(***************************************************************************)
(* The registry used directly: any client of JobService may call its       *)
(* operations in any order, on any ID.                                     *)
(***************************************************************************)
\* Number of registry calls in one behaviour of SpecRegistry.
MaxCalls == 3

Statuses == {"uploaded", "processing", "completed", "failed"}

RegistryKwargs ==
    {[status |-> "processing", status_enum |-> FALSE], [progress |-> 10], [error |-> Some("boom")],
     [step |-> Some("omr"), progress |-> 25], [priority |-> 1],
     [to_dict |-> "overwritten"], [job_id |-> 2], [created_at |-> 0]}

RegistryPath == Path("outputs", "result", ".mp3")

Called ==
    /\ calls < MaxCalls
    /\ calls' = calls + 1
    /\ UNCHANGED <<app, cleanup_files, files, task, running, run, response, faults>>

CreateJob(job_id, job_type) ==
    /\ jobs' = create_job(jobs, job_id, job_type, [stem |-> "score", ext |-> ".png"],
                          UploadPath(job_id, [stem |-> "score", ext |-> ".png"]))
    /\ Called

UpdateJob(job_id, kwargs) ==
    /\ jobs' = update_job(jobs, job_id, kwargs)
    /\ Called

UpdateStatus(job_id, status, step, progress, error, output_path) ==
    /\ jobs' = update_status(jobs, job_id, status, step, progress, error, output_path)
    /\ Called

MarkProcessing(job_id, step, progress) ==
    /\ jobs' = mark_processing(jobs, job_id, step, progress)
    /\ Called

RegistryMarkCompleted(job_id, output_path) ==
    /\ jobs' = mark_completed(jobs, job_id, output_path)
    /\ Called

RegistryMarkFailed(job_id, error) ==
    /\ jobs' = mark_failed(jobs, job_id, error)
    /\ Called

NextRegistry ==
    \/ \E job_id \in JobIds, job_type \in {"omr", "amt"} : CreateJob(job_id, job_type)
    \/ \E job_id \in JobIds, kwargs \in RegistryKwargs : UpdateJob(job_id, kwargs)
    \/ \E job_id \in JobIds, status \in Statuses, step \in {None, Some("omr")},
          progress \in {None, Some(50)}, error \in {None, Some("boom")},
          output_path \in {None, Some(RegistryPath)} :
          UpdateStatus(job_id, status, step, progress, error, output_path)
    \/ \E job_id \in JobIds, step \in {"omr", "synthesis"}, progress \in {25, 75} :
          MarkProcessing(job_id, step, progress)
    \/ \E job_id \in JobIds : RegistryMarkCompleted(job_id, RegistryPath)
    \/ \E job_id \in JobIds : RegistryMarkFailed(job_id, "boom")

InitRegistry == Init /\ app = "refactored"

SpecRegistry == InitRegistry /\ [][NextRegistry]_vars

(***************************************************************************)
(* Status and download endpoints.  They are coroutines of the same event   *)
(* loop, so they run only while no background task holds it.               *)
(***************************************************************************)
\* variant of to_dict that leaves the error out
to_dict_without_error(job) ==
    Return([job_id |-> job.job_id, type |-> job.type, status |-> job.status,
            filename |-> job.filename, upload_path |-> job.upload_path,
            output_path |-> job.output_path, step |-> job.step,
            progress |-> job.progress, created_at |-> job.created_at,
            updated_at |-> job.updated_at], <<>>)

\* job.to_dict(): the attribute must still be the method, and
\* `self.status.value` needs a JobStatus member
to_dict(job) ==
    IF job.to_dict # "method"
    THEN Raise(Exc("TypeError", "'str' object is not callable"), <<>>)
    ELSE IF job.status_enum
    THEN Return([job_id |-> job.job_id, type |-> job.type, status |-> job.status,
                 filename |-> job.filename, upload_path |-> job.upload_path,
                 output_path |-> job.output_path, error |-> job.error,
                 step |-> job.step, progress |-> job.progress,
                 created_at |-> job.created_at, updated_at |-> job.updated_at], <<>>)
    ELSE Raise(Exc("AttributeError", "'str' object has no attribute 'value'"), <<>>)

\* an exception no handler catches: the server answers 500
InternalServerError == Response(500, None, "Internal Server Error")

\* routes: get_omr_status / get_amt_status
get_omr_status(J, job_id) ==
    LET job == get_job(J, job_id)
    IN  IF job = None
        THEN Response(404, None, "Job not found")
        ELSE IF raised(to_dict(job[1]))
        THEN InternalServerError
        ELSE Response(200, Some(job_id), to_dict(job[1]).ret[1])

\* main.py: get_omr_status / get_amt_status
legacy_get_omr_status(J, job_id) ==
    IF job_id \notin DOMAIN J
    THEN Response(404, None, "Job not found")
    ELSE Response(200, Some(job_id), J[job_id])

\* FileResponse(output_path, ...): the file it sends
FileResponse(output_path) == [path |-> output_path]

\* routes: download_omr_result / download_amt_result (they differ in the
\* media type and the download name only)
download_omr_result(J, F, job_id) ==
    LET job == get_job(J, job_id)
    IN  IF job = None
        THEN Response(404, None, "Job not found")
        ELSE IF job[1].status # "completed"
        THEN IF job[1].status_enum
             THEN Response(400, None, "Job is not complete. Current status: " \o job[1].status)
             ELSE InternalServerError
        ELSE IF job[1].output_path = None
        THEN InternalServerError
        ELSE IF ~exists(F, job[1].output_path[1])
        THEN Response(404, None, "Output file not found")
        ELSE Response(200, Some(job_id), FileResponse(job[1].output_path[1]))

\* main.py: download_omr_result / download_amt_result
legacy_download_omr_result(J, F, job_id) ==
    IF job_id \notin DOMAIN J
    THEN Response(404, None, "Job not found")
    ELSE IF J[job_id].status # "completed"
    THEN Response(400, None, "Job is not complete. Current status: " \o J[job_id].status)
    ELSE IF J[job_id].output_path = None
    THEN InternalServerError
    ELSE IF ~exists(F, J[job_id].output_path[1])
    THEN Response(404, None, "Output file not found")
    ELSE Response(200, Some(job_id), FileResponse(J[job_id].output_path[1]))

\* variant of Answer in which reading a record goes through update_job
AnswerAndTouch(res) ==
    /\ response = None
    /\ running = NoJob
    /\ response' = Some(res)
    /\ jobs' = update_job(jobs, res.id, <<>>)
    /\ UNCHANGED <<app, cleanup_files, files, task, running, run, faults, calls>>

\* a request handler runs and hands its response to the server; the
\* response is kept with the endpoint and the ID of the request
Answer(res) ==
    /\ response = None
    /\ running = NoJob
    /\ response' = Some(res)
    /\ UNCHANGED <<app, cleanup_files, jobs, files, task, running, run, faults, calls>>

GetStatus(job_id) ==
    /\ app = "refactored"
    /\ Answer([endpoint |-> "status", id |-> job_id] @@ get_omr_status(jobs, job_id))

LegacyGetStatus(job_id) ==
    /\ app = "legacy"
    /\ Answer([endpoint |-> "status", id |-> job_id] @@ legacy_get_omr_status(jobs, job_id))

Download(job_id) ==
    /\ app = "refactored"
    /\ Answer([endpoint |-> "download", id |-> job_id]
                 @@ download_omr_result(jobs, files, job_id))

LegacyDownload(job_id) ==
    /\ app = "legacy"
    /\ Answer([endpoint |-> "download", id |-> job_id]
                 @@ legacy_download_omr_result(jobs, files, job_id))

\* someone removes the output artifact of a completed job from the disk
DeleteArtifact(j) ==
    /\ response = None
    /\ running = NoJob
    /\ j \in DOMAIN jobs
    /\ jobs[j].status = "completed"
    /\ jobs[j].output_path # None
    /\ exists(files, jobs[j].output_path[1])
    /\ faults < MaxFaults
    /\ faults' = faults + 1
    /\ files' = unlink(files, jobs[j].output_path[1])
    /\ UNCHANGED <<app, cleanup_files, jobs, task, running, run, response, calls>>

NextApi ==
    \/ Next
    \/ \E job_id \in JobIds : GetStatus(job_id)
    \/ \E job_id \in JobIds : LegacyGetStatus(job_id)
    \/ \E job_id \in JobIds : Download(job_id)
    \/ \E job_id \in JobIds : LegacyDownload(job_id)
    \/ \E j \in JobIds : DeleteArtifact(j)

SpecApi == Init /\ [][NextApi]_vars

(***************************************************************************)
(* JobService.delete_job, which no route calls: code outside the job flow  *)
(* may call it at any moment, also while the pipeline of the job runs.     *)
(***************************************************************************)
delete_job(J, job_id) ==
    IF job_id \in DOMAIN J
    THEN [ret |-> TRUE, jobs |-> [other \in DOMAIN J \ {job_id} |-> J[other]]]
    ELSE [ret |-> FALSE, jobs |-> J]

DeleteJob(job_id) ==
    /\ app = "refactored"
    /\ jobs' = delete_job(jobs, job_id).jobs
    /\ Called

NextDelete ==
    \/ NextApi
    \/ \E job_id \in JobIds : DeleteJob(job_id)

SpecDelete == Init /\ [][NextDelete]_vars

(***************************************************************************)
(* The synthesis stage on every spelling of the instrument selector: a     *)
(* legacy run taken up where it calls midi_to_audio, followed to its end.  *)
(***************************************************************************)
\* instrument values a client may send
Selectors == {"piano", "Piano", "trombone", "Trombone", "trumpet", "TRUMPET", "tuba"}

SynthUpload == UploadPath(1, [stem |-> "score", ext |-> ".png"])

SynthMusicxml == OutputPath(SynthUpload, "", ".musicxml")

SynthMidi == OutputPath(SynthMusicxml, "", ".mid")

\* job 1 of the legacy application after recognition and conversion
InitSynth ==
    /\ app = "legacy"
    /\ cleanup_files \in BOOLEAN
    /\ \E instrument \in Selectors :
         /\ jobs = update_job_status(
                      1 :> (("instrument" :> instrument)
                            @@ LegacyJob("omr", [stem |-> "score", ext |-> ".png"], SynthUpload)),
                      1, synthesis_payload)
         /\ task = 1 :> [Task("omr", SynthUpload, instrument, instrument)
                            EXCEPT !.pc = "synthesis",
                                   !.musicxml_path = Some(SynthMusicxml),
                                   !.midi_path = Some(SynthMidi)]
    /\ files = (SynthUpload :> Content("upload", None))
               @@ (SynthMusicxml :> Content("tool", None))
               @@ (SynthMidi :> Content("tool", None))
    /\ running = 1
    /\ run = [NoRun EXCEPT !.job = 1,
                           !.callbacks = <<omr_payload, conversion_payload, synthesis_payload>>,
                           !.stages = <<"omr", "conversion">>]
    /\ response = None
    /\ faults = 0
    /\ calls = 0

NextSynth ==
    \/ \E j \in JobIds : OMRStageSynthesis(j)
    \/ \E j \in JobIds : OMRCleanup(j)
    \/ \E j \in JobIds : OMRCallbackCompleted(j)
    \/ \E j \in JobIds : OMRExcept(j)
    \/ \E j \in JobIds : LegacySetOutputPath(j)
    \/ \E j \in JobIds : LegacySetCompleted(j)
    \/ \E j \in JobIds : LegacySetFailed(j)
    \/ \E j \in JobIds : LegacySetError(j)
    \/ \E j \in JobIds : TaskEnd(j)

SpecSynth == InitSynth /\ [][NextSynth]_vars

(***************************************************************************)
(* Properties                                                              *)
(***************************************************************************)
Terminal == {"completed", "failed"}

\* the job whose background task has reached pc `pc`
TaskAt(j, pc) == j \in DOMAIN task /\ running = j /\ task[j].pc = pc

\* process has handed control back to its caller (it returned or raised)
ProcessEnded(j) ==
    /\ j \in DOMAIN task
    /\ running = j
    /\ task[j].pc \in {"returned", "raised", "set_status", "set_error", "finished"}

\* C1: in every reachable state and for every job, output_path is set if
\* and only if status is completed -- also in the states between the
\* pipeline's callbacks and the caller's mark_completed / mark_failed.
\* Refuted: the completed callback carries no output_path, so the state it
\* produces has status completed and output_path None.
C1_OutputPathIffCompleted ==
    \A j \in DOMAIN jobs : (jobs[j].output_path # None) <=> (jobs[j].status = "completed")

\* C2: in every reachable state of the registry and for every job, error is
\* set if and only if status is failed, whatever registry operations were
\* applied before.  Refuted: update_status / mark_processing leave the error
\* of a failed job in place, and update_status(FAILED) sets none.
C2_ErrorIffFailed ==
    \A j \in DOMAIN jobs : (jobs[j].error # None) <=> (jobs[j].status = "failed")

\* status transition of one job allowed by uploaded -> processing -> terminal
AllowedTransition(old, new) ==
    CASE old = "uploaded" -> new \in {"uploaded", "processing"}
      [] old = "processing" -> new \in {"processing", "completed", "failed"}
      [] OTHER -> new = old

\* C3: the status of a job created by an upload and driven by its background
\* run goes uploaded, then processing one or more times, then exactly one of
\* completed or failed: it never goes from uploaded to a terminal status,
\* never returns to uploaded, never leaves a terminal status, and it is
\* terminal when the background task has finished.
C3_StatusSequence ==
    /\ [](\A j \in DOMAIN jobs :
            /\ jobs[j].status \in {"uploaded", "processing", "completed", "failed"}
            /\ task[j].pc = "scheduled" => jobs[j].status = "uploaded"
            /\ task[j].pc \in {"finished", "done"} => jobs[j].status \in Terminal)
    /\ [][\A j \in DOMAIN jobs :
            /\ j \in DOMAIN jobs'
            /\ AllowedTransition(jobs[j].status, jobs'[j].status)]_vars

\* a job went through processing and its task finished with status completed
C3_Witness ==
    \E j \in DOMAIN jobs :
        /\ TaskAt(j, "finished")
        /\ jobs[j].status = "completed"
        /\ Len(run.callbacks) >= 3

\* C4: no registry operation applied to the ID of a job whose status is
\* completed or failed changes that status.  Refuted: the registry has no
\* guard, e.g. mark_processing after mark_completed, or create_job on the
\* same ID.
C4_TerminalStatusKept ==
    [][\A j \in DOMAIN jobs :
          jobs[j].status \in Terminal =>
              j \in DOMAIN jobs' /\ jobs'[j].status = jobs[j].status]_vars

\* C5: across the successive status updates applied to one job (processing
\* callbacks, the failed callback, the caller's mark_completed / mark_failed)
\* its progress never decreases.
C5_ProgressNeverDecreases ==
    [][\A j \in DOMAIN jobs :
          j \in DOMAIN jobs' /\ jobs'[j].progress >= jobs[j].progress]_vars

\* a job that was updated by two processing callbacks, the failed callback
\* and the caller's failure handler, and kept the progress it had
C5_Witness ==
    \E j \in DOMAIN jobs :
        /\ TaskAt(j, "finished")
        /\ jobs[j].status = "failed"
        /\ jobs[j].progress = 50

\* C6: whenever a job's status is completed its progress is exactly 100,
\* right after the pipeline's completed callback and after the caller's
\* mark_completed.
C6_CompletedProgress100 ==
    \A j \in DOMAIN jobs : jobs[j].status = "completed" => jobs[j].progress = 100

\* the state right after the completed callback, before the caller acts
C6_Witness ==
    \E j \in DOMAIN jobs :
        /\ TaskAt(j, "returned")
        /\ jobs[j].status = "completed"
        /\ jobs[j].progress = 100

\* C7: if the external tool of a stage is unavailable, rejects the input,
\* exits non-zero, crashes or times out, the job ends failed; and no job is
\* completed with an output derived from an artifact the tool did not
\* produce.  Refuted: _run_basic_pitch and _run_oemer write a placeholder
\* and return it, and midi_to_pdf does not check lilypond's exit code.
C7_ToolFailureFailsJob ==
    \A j \in DOMAIN jobs :
        /\ TaskAt(j, "finished") /\ run.toolfailed => jobs[j].status = "failed"
        /\ jobs[j].status = "completed" /\ jobs[j].output_path # None =>
               files[jobs[j].output_path[1]].origin # "mock"

\* C8: when a pipeline run raises, the job's final record has status failed,
\* a non-empty error equal to the failure message and no output_path; the
\* exception is handled inside the background task (from `raised` the task
\* only goes through its except block to its end), and the record does not
\* change afterwards.
C8_FailedRecord ==
    /\ [](\A j \in DOMAIN jobs :
            TaskAt(j, "finished") /\ run.exc # None =>
                /\ jobs[j].status = "failed"
                /\ jobs[j].error = Some(str(run.exc[1]))
                /\ str(run.exc[1]) # ""
                /\ jobs[j].output_path = None)
    /\ [][\A j \in DOMAIN task :
            /\ task[j].pc \in {"raised", "set_error"} =>
                   task'[j].pc \in {"raised", "set_error", "finished"}
            /\ task[j].pc \in {"finished", "done"} =>
                   /\ task'[j].pc \in {"finished", "done"}
                   /\ jobs'[j] = jobs[j]]_vars

\* a run raised and its task has finished
C8_Witness ==
    \E j \in DOMAIN jobs :
        /\ TaskAt(j, "finished")
        /\ run.exc # None
        /\ jobs[j].status = "failed"

\* C9: when a stage fails, the callback receives (failed, error=<message>)
\* exactly once, as the payload right after the processing payloads issued
\* so far; no later stage is invoked, no processing or completed payload
\* follows, and the caller of process gets the stage's exception.
C9_StageFailure ==
    \A j \in DOMAIN task :
        running = j /\ run.failed_at # None =>
            LET f == run.failed_at[1]
                n == Len(run.stages)
            IN  /\ run.stages[n] = f.stage
                /\ task[j].pc \in {"except", "raised", "set_error", "finished"}
                /\ task[j].exc = Some(f.exc)
                /\ \A i \in 1..n : run.callbacks[i].status = "processing"
                /\ IF task[j].pc = "except"
                   THEN Len(run.callbacks) = n /\ run.exc = None
                   ELSE /\ Len(run.callbacks) = n + 1
                        /\ run.callbacks[n + 1] =
                               [status |-> "failed", error |-> Some(str(f.exc))]
                        /\ run.exc = Some(f.exc)

\* the second stage of a run failed and process has raised to its caller
C9_Witness ==
    \E j \in DOMAIN task :
        /\ TaskAt(j, "raised")
        /\ run.failed_at # None
        /\ Len(run.stages) = 2

\* C10: on an image/PDF-to-audio run whose three stages all succeed the
\* callback receives exactly (processing, omr, 25), (processing, conversion,
\* 50), (processing, synthesis, 75), (completed, 100), never a failed
\* payload, and process returns the final audio path.  Refuted: cleanup runs
\* inside the try block and its unlink may raise, which sends the run to the
\* except block after all three stages succeeded.
C10_FourPayloads ==
    \A j \in DOMAIN task :
        /\ task[j].kind = "omr"
        /\ ProcessEnded(j)
        /\ run.stages = <<"omr", "conversion", "synthesis">>
        /\ run.failed_at = None
        => /\ run.callbacks = <<[status |-> "processing", step |-> Some("omr"), progress |-> 25],
                                [status |-> "processing", step |-> Some("conversion"),
                                 progress |-> 50],
                                [status |-> "processing", step |-> Some("synthesis"),
                                 progress |-> 75],
                                [status |-> "completed", progress |-> 100]>>
           /\ run.exc = None
           /\ run.ret # None
           /\ run.ret[1].ext = ".mp3"
           /\ exists(files, run.ret[1])

\* C11: on an audio-to-document run whose two stages both succeed the
\* callback receives exactly (processing, 25) for transcription,
\* (processing, 75) for rendering, (completed, 100), never a failed payload,
\* and process returns the final document path.  Refuted: cleanup of the
\* note file runs inside the try block and its unlink may raise, which sends
\* the run to the except block after both stages succeeded.
C11_ThreePayloads ==
    \A j \in DOMAIN task :
        /\ task[j].kind = "amt"
        /\ ProcessEnded(j)
        /\ run.stages = <<"transcription", "rendering">>
        /\ run.failed_at = None
        => /\ run.callbacks = <<[status |-> "processing", step |-> Some("transcription"),
                                 progress |-> 25],
                                [status |-> "processing", step |-> Some("rendering"),
                                 progress |-> 75],
                                [status |-> "completed", progress |-> 100]>>
           /\ run.exc = None
           /\ run.ret # None
           /\ run.ret[1].ext = ".pdf"
           /\ exists(files, run.ret[1])

\* C12: the progress milestone of a stage is reported only after that stage
\* returned successfully, so a job whose stage k failed has no milestone of
\* stage k recorded and a job whose first stage failed has progress 0.
\* Refuted: each processing payload is sent before the stage it names is
\* called.
C12_MilestoneAfterStage ==
    /\ \A i \in DOMAIN run.callbacks :
          run.callbacks[i].status = "processing" =>
              \E k \in DOMAIN run.stages :
                  /\ run.stages[k] = run.callbacks[i].step[1]
                  /\ ~(run.failed_at # None /\ run.failed_at[1].stage = run.stages[k])
    /\ \A j \in DOMAIN jobs :
          running = j /\ run.failed_at # None /\ Len(run.stages) = 1 =>
              jobs[j].progress = 0

\* a step in which an upload handler accepted a file
UploadAccepted == response = None /\ response' # None /\ response'[1].code = 200

\* C13: every successful upload adds exactly one record, under an ID that
\* was not in the registry (and, records never being removed, was given to
\* no earlier upload); the record has status uploaded, progress 0 and no
\* output_path, error or step; no existing record is changed.
C13_UploadAddsOneRecord ==
    [][/\ DOMAIN jobs \subseteq DOMAIN jobs'
       /\ UploadAccepted =>
            \E id \in DOMAIN jobs' \ DOMAIN jobs :
                /\ DOMAIN jobs' = DOMAIN jobs \cup {id}
                /\ response'[1].job_id = Some(id)
                /\ jobs'[id].status = "uploaded"
                /\ jobs'[id].progress = 0
                /\ jobs'[id].output_path = None
                /\ jobs'[id].error = None
                /\ jobs'[id].step = None
                /\ \A other \in DOMAIN jobs : jobs'[other] = jobs[other]]_vars

\* a second upload was accepted after the first job had run to its end
C13_Witness ==
    /\ response # None
    /\ response[1].code = 200
    /\ \E id \in DOMAIN jobs, other \in DOMAIN jobs :
          /\ response[1].job_id = Some(id)
          /\ other # id
          /\ jobs[id].status = "uploaded"
          /\ jobs[other].status \in Terminal

\* the allow-list the serving application applies to uploads of one kind
AllowList(kind) ==
    CASE app = "legacy" /\ kind = "omr" -> legacy_omr_allowed_extensions
      [] app = "legacy" /\ kind = "amt" -> legacy_amt_allowed_extensions
      [] app = "refactored" /\ kind = "omr" -> omr_allowed_extensions
      [] OTHER -> amt_allowed_extensions

\* a step in which an upload handler refused a file
UploadRejected == response = None /\ response' # None /\ response'[1].code # 200

\* C14: an upload whose extension is outside the allow-list of its pipeline
\* is rejected before any job is created: the rejection leaves the registry,
\* the upload directory and the scheduled background runs as they were, and
\* every record that is created (with its file and its scheduled run)
\* belongs to a filename whose extension is in the allow-list.
C14_RejectedBeforeJob ==
    [][/\ UploadRejected => jobs' = jobs /\ files' = files /\ task' = task
       /\ \A id \in DOMAIN jobs' \ DOMAIN jobs :
             lower(suffix(jobs'[id].filename)) \in AllowList(jobs'[id].type)
       /\ \A id \in DOMAIN task' \ DOMAIN task :
             /\ id \in DOMAIN jobs'
             /\ lower(suffix(jobs'[id].filename)) \in AllowList(jobs'[id].type)
       /\ \A path \in DOMAIN files' \ DOMAIN files :
             path.dir = "uploads" => lower(path.ext) \in AllowList("omr") \cup AllowList("amt")
      ]_vars

\* an upload was refused while the registry already held a job
C14_Witness ==
    /\ response # None
    /\ response[1].code # 200
    /\ response[1].job_id = None
    /\ DOMAIN jobs # {}

\* C15: an upload whose extension is not in the allow-list is answered with
\* a client error (HTTP 4xx), for both pipeline kinds and in both
\* applications.  Refuted: the legacy handlers raise HTTPException(400)
\* inside a try block whose `except Exception` turns it into a 500.
C15_RejectedWithClientError ==
    response # None /\ response[1].job_id = None => response[1].code \in 400..499

\* a step in which the endpoint `endpoint` answered a request
RequestStep(endpoint) ==
    /\ response = None
    /\ response' # None
    /\ "endpoint" \in DOMAIN response'[1]
    /\ response'[1].endpoint = endpoint

\* the response being sent answers a request to `endpoint`
Answered(endpoint) ==
    /\ response # None
    /\ "endpoint" \in DOMAIN response[1]
    /\ response[1].endpoint = endpoint

\* C16: for an existing job whose status is not completed, a download
\* request returns a client error whose detail names the job's current
\* status, returns no artifact and leaves the job record unchanged.
C16_DownloadBeforeCompletion ==
    [][RequestStep("download") =>
          LET id == response'[1].id
          IN  id \in DOMAIN jobs /\ jobs[id].status # "completed" =>
                  /\ response'[1].code \in 400..499
                  /\ response'[1].detail =
                         "Job is not complete. Current status: " \o jobs[id].status
                  /\ jobs' = jobs]_vars

\* a download request for a failed job was answered 400
C16_Witness ==
    /\ Answered("download")
    /\ response[1].id \in DOMAIN jobs
    /\ jobs[response[1].id].status = "failed"
    /\ response[1].code = 400

\* C17: for a job with status completed whose output artifact is not on
\* disk, a download request returns a not-found error, not an unhandled
\* exception, in every state in which a request can observe status
\* completed; the job record is unchanged.
C17_DownloadArtifactGone ==
    [][RequestStep("download") =>
          LET id == response'[1].id
          IN  /\ id \in DOMAIN jobs
              /\ jobs[id].status = "completed"
              /\ (jobs[id].output_path = None \/ ~exists(files, jobs[id].output_path[1]))
              => /\ response'[1].code = 404
                 /\ jobs' = jobs]_vars

\* a download request for a completed job whose artifact was removed was
\* answered 404
C17_Witness ==
    /\ Answered("download")
    /\ response[1].id \in DOMAIN jobs
    /\ jobs[response[1].id].status = "completed"
    /\ ~exists(files, jobs[response[1].id].output_path[1])
    /\ response[1].code = 404

\* the fields of a job record a status response shows
RecordFields ==
    {"type", "status", "filename", "upload_path", "output_path", "error", "step", "progress"}

\* C18: a status request for an ID in the registry returns the full job
\* record, whatever the job's status, and for an ID not in the registry a
\* not-found error; it never ends in an internal error.
C18_StatusNeverFails ==
    Answered("status") =>
        LET id == response[1].id
        IN  IF id \in DOMAIN jobs
            THEN /\ response[1].code = 200
                 /\ RecordFields \subseteq DOMAIN response[1].detail
                 /\ \A k \in RecordFields : response[1].detail[k] = jobs[id][k]
            ELSE response[1].code = 404

\* a status request for a failed job of the refactored application was
\* answered with its record
C18_Witness ==
    /\ Answered("status")
    /\ app = "refactored"
    /\ response[1].id \in DOMAIN jobs
    /\ jobs[response[1].id].status = "failed"
    /\ response[1].code = 200
    /\ response[1].detail.error = jobs[response[1].id].error

\* what a status request for `id` is answered in the current state
StatusOf(id) ==
    IF app = "legacy" THEN legacy_get_omr_status(jobs, id) ELSE get_omr_status(jobs, id)

\* C19: status and download requests change no field of any job (updated_at
\* included), a status response is the record as the registry holds it, and
\* the record of a job whose background task has ended is never written
\* again: repeated status requests for a terminal job get identical records.
C19_RequestsChangeNothing ==
    [][/\ RequestStep("status") \/ RequestStep("download") =>
            /\ jobs' = jobs
            /\ files' = files
            /\ task' = task
       /\ RequestStep("status") =>
            /\ response'[1].code = StatusOf(response'[1].id).code
            /\ response'[1].detail = StatusOf(response'[1].id).detail
       /\ \A id \in DOMAIN jobs :
            task[id].pc = "done" =>
                /\ jobs[id].status \in Terminal
                /\ id \in DOMAIN jobs' /\ jobs'[id] = jobs[id]]_vars

\* a status request for a completed job is being answered
C19_Witness ==
    /\ Answered("status")
    /\ response[1].id \in DOMAIN jobs
    /\ task[response[1].id].pc = "done"
    /\ jobs[response[1].id].status = "completed"
    /\ response[1].code = 200

\* C20: the instrument selector given with an upload to the image/PDF-to-
\* audio pipeline is the selector passed to the synthesis stage of that job,
\* and the audio of an upload with instrument "trumpet" carries the General
\* MIDI trumpet program (56), in both applications.  Refuted: the refactored
\* route declares no instrument parameter and calls process without one, so
\* synthesis runs with "piano".
C20_InstrumentPassedOn ==
    \A j \in DOMAIN task :
        task[j].kind = "omr" /\ running = j =>
            /\ (\E k \in DOMAIN run.stages : run.stages[k] = "synthesis")
               => task[j].instrument = task[j].selector
            /\ (task[j].pc = "finished" /\ jobs[j].status = "completed" /\ ~run.toolfailed)
               => files[jobs[j].output_path[1]].program
                      = Some(INSTRUMENTS[lower(task[j].selector)])

\* the General MIDI program the instrument table gives a selector, whatever
\* its case; piano for a name the table does not have
GeneralMidiProgram(selector) ==
    CASE selector \in {"piano", "Piano"} -> 0
      [] selector \in {"trombone", "Trombone"} -> 57
      [] selector \in {"trumpet", "TRUMPET"} -> 56
      [] OTHER -> 0

SynthesisReturned(j) == TaskAt(j, "cleanup") /\ task[j].output_path # None

C22_CleanupNeverRaises ==
    \A j \in DOMAIN task :
        (running = j /\ run.failed_at = None)
            => /\ task[j].exc = None
               /\ run.exc = None
               /\ (task[j].pc = "finished" => jobs[j].status # "failed")

\* the files in the output directory that the run of job j wrote: their
\* names are the job ID followed by a stage's tag
OutputsOf(j) ==
    {p \in DOMAIN files :
        /\ p.dir = "outputs"
        /\ p.stem \in {ToString(j) \o tag :
                          tag \in {"", "_converted", "_instrument", "_converted_instrument"}}}

\* C23: after a job completed with the cleanup flag on, the only file of
\* its run left in the output directory is the final artifact output_path
\* refers to, for both pipelines and for image and PDF inputs.  Refuted:
\* the page rasterized from a PDF upload and the score text written for the
\* renderer are never deleted.
C23_OnlyFinalArtifactLeft ==
    \A j \in DOMAIN jobs :
        (/\ cleanup_files
         /\ jobs[j].status = "completed"
         /\ jobs[j].output_path # None
         /\ j \in DOMAIN task /\ task[j].pc \in {"finished", "done"})
            => OutputsOf(j) \subseteq {jobs[j].output_path[1]}

\* the file stems named after each job ID: the ID followed by the tags
\* stages append
StemsOf ==
    [j \in JobIds |->
        {ToString(j) \o tag :
           tag \in {"", "_converted", "_instrument", "_converted_instrument"}}]

\* a path named after job j
NamedAfter(j, p) == p.stem \in StemsOf[j]

\* the paths job j's record and its background task refer to
PathsOf(j) ==
    {jobs[j].upload_path}
      \cup {jobs[j].output_path[k] : k \in DOMAIN jobs[j].output_path}
      \cup (IF j \in DOMAIN task
            THEN {task[j].upload_path}
                   \cup UNION {{task[j][f][k] : k \in DOMAIN task[j][f]} :
                                  f \in {"musicxml_path", "midi_path", "output_path"}}
            ELSE {})

\* the job a step works for: the one whose task holds the event loop, or
\* the one an upload creates
Actor ==
    IF running # NoJob THEN {running} ELSE (DOMAIN jobs') \ (DOMAIN jobs)

\* the paths whose file a step wrote, overwrote or deleted
Touched ==
    {p \in (DOMAIN files) \cup (DOMAIN files') :
        \/ (p \in DOMAIN files) # (p \in DOMAIN files')
        \/ files[p] # files'[p]}

\* C24: two jobs with distinct IDs never read, write or delete the same
\* path of the upload or output directory: every path a job refers to and
\* every file a step of it touches is named after that job's ID alone, for
\* every mix of pipeline kinds and input extensions.
C24_JobsShareNoPath ==
    /\ [](\A i \in DOMAIN jobs :
             /\ \A p \in PathsOf(i) : NamedAfter(i, p)
             /\ \A j \in (DOMAIN jobs) \ {i} : PathsOf(i) \cap PathsOf(j) = {})
    /\ [](\A i, j \in JobIds : i # j => StemsOf[i] \cap StemsOf[j] = {})
    /\ [][files' # files => \A p \in Touched : \E j \in Actor : NamedAfter(j, p)]_vars

\* two jobs of different pipelines, one from a PDF, have both left files
C24_Witness ==
    \E i, j \in DOMAIN jobs :
        /\ i # j
        /\ jobs[i].type = "omr" /\ jobs[j].type = "amt"
        /\ jobs[i].upload_path.ext = ".pdf"
        /\ \E p, q \in DOMAIN files :
             /\ p.dir = "outputs" /\ NamedAfter(i, p)
             /\ q.dir = "outputs" /\ NamedAfter(j, q)

\* the attributes of a job the registry keeps (status_enum is how `status`
\* is stored)
JobAttributes ==
    {"job_id", "type", "status", "status_enum", "filename", "upload_path", "output_path",
     "error", "step", "progress", "created_at", "updated_at"}

\* C25: update_job(id, fields) for an ID not in the registry changes
\* nothing and creates no record; for an ID in the registry it changes only
\* the named fields that are job attributes, ignores every other name, sets
\* updated_at to the current time, and leaves the fields not named and all
\* other records alone.  Refuted: the name test is hasattr(), which also
\* finds the method to_dict, so update_job(id, to_dict=...) replaces it.
C25_UpdateJobFrame ==
    \A job_id \in JobIds, kwargs \in RegistryKwargs :
        LET after == update_job(jobs, job_id, kwargs)
        IN  IF job_id \notin DOMAIN jobs
            THEN after = jobs
            ELSE /\ DOMAIN after = DOMAIN jobs
                 /\ \A other \in (DOMAIN jobs) \ {job_id} : after[other] = jobs[other]
                 /\ DOMAIN after[job_id] = DOMAIN jobs[job_id]
                 /\ \A key \in DOMAIN jobs[job_id] :
                      after[job_id][key] =
                          CASE key = "updated_at" -> utcnow(jobs, job_id)
                            [] key \in (DOMAIN kwargs) \cap JobAttributes -> kwargs[key]
                            [] OTHER -> jobs[job_id][key]

\* C26: a job's identity is immutable: after any sequence of registry
\* operations every record has a job_id equal to the key it is stored
\* under, and no operation changes the job_id of an existing record.
\* Refuted: job_id is an attribute like any other to update_job, so
\* update_job(id, job_id=...) rewrites it.
C26_JobIdImmutable ==
    /\ [](\A j \in DOMAIN jobs : jobs[j].job_id = j)
    /\ [][\A j \in (DOMAIN jobs) \cap (DOMAIN jobs') :
             jobs'[j].job_id = jobs[j].job_id]_vars

\* C27: for every job in every reachable state, step is absent whenever
\* status is not processing: absent while uploaded, absent again once
\* completed or failed.  Refuted: neither the terminal callbacks nor
\* mark_completed / mark_failed clear step, so it keeps the name of the last
\* stage that was announced.
C27_StepOnlyWhileProcessing ==
    \A j \in DOMAIN jobs : jobs[j].status # "processing" => jobs[j].step = None

\* the step stores a new record under the ID j (create_job on that ID)
Recreated(j) ==
    jobs'[j] = create_job(jobs, j, jobs'[j].type, jobs'[j].filename, jobs'[j].upload_path)[j]

\* C28: under a non-decreasing clock, for every job created_at is at most
\* updated_at in every reachable state, updated_at never decreases across
\* registry operations, and created_at never changes after creation.
\* Refuted: created_at is an attribute like any other to update_job, so
\* update_job(id, created_at=...) rewrites it.
C28_Timestamps ==
    /\ [](\A j \in DOMAIN jobs : jobs[j].created_at <= jobs[j].updated_at)
    /\ [][\A j \in (DOMAIN jobs) \cap (DOMAIN jobs') :
             /\ jobs'[j].updated_at >= jobs[j].updated_at
             /\ jobs'[j].created_at = jobs[j].created_at \/ Recreated(j)]_vars

\* an upload is accepted and its job created
AcceptUpload ==
    /\ \/ \E filename \in Filenames, instrument \in Instruments :
             UploadOMR(filename, instrument) \/ LegacyUploadOMR(filename, instrument)
       \/ \E filename \in Filenames : UploadAMT(filename) \/ LegacyUploadAMT(filename)
    /\ DOMAIN jobs' # DOMAIN jobs

\* a status request for job j is answered
AnswerStatus(j) == GetStatus(j) \/ LegacyGetStatus(j)

\* C29: jobs run concurrently: while one job's pipeline run is in progress
\* (its status is processing, at a milestone 25, 50 or 75), another upload
\* can be accepted and a status request can observe the job at that
\* milestone.  Refuted: the run is a coroutine that never yields the event
\* loop, so no handler runs before it ends.
C29_RequestsServedDuringRun ==
    \A j \in DOMAIN jobs :
        (/\ running = j
         /\ response = None
         /\ jobs[j].status = "processing"
         /\ jobs[j].progress \in {25, 50, 75})
            => /\ ENABLED AnswerStatus(j)
               /\ (\E id \in JobIds : id \notin DOMAIN jobs) => ENABLED AcceptUpload

\* C30: every job created by an upload eventually reaches status completed
\* or failed, given that the background task is scheduled and every tool
\* call returns, raises or is cut off by its timeout; no job stays uploaded
\* or processing forever.
C30_EveryJobEnds ==
    \A j \in JobIds :
        (j \in DOMAIN jobs) ~> (j \in DOMAIN jobs /\ jobs[j].status \in Terminal)

\* a job whose synthesizer was cut off by its timeout has ended failed
C30_Witness ==
    \E j \in DOMAIN jobs :
        /\ j \in DOMAIN task /\ task[j].pc = "done"
        /\ jobs[j].status = "failed"
        /\ jobs[j].error = Some("Synthesis failed: " \o "timed out after 60 seconds")

\* the stages of a pipeline in the order process calls them
StageOrder(kind) ==
    IF kind = "omr" THEN <<"omr", "conversion", "synthesis">>
    ELSE <<"transcription", "rendering">>

IsPrefix(s, t) == Len(s) <= Len(t) /\ \A k \in 1..Len(s) : s[k] = t[k]

\* the artifact a stage is given, and the one it returns when given `input`
StageInput(j, name) ==
    CASE name \in {"omr", "transcription"} -> Some(task[j].upload_path)
      [] name = "conversion" -> task[j].musicxml_path
      [] OTHER -> task[j].midi_path

\* the local variable that holds the result of a stage
StageResult(name) ==
    CASE name = "omr" -> "musicxml_path"
      [] name \in {"conversion", "transcription"} -> "midi_path"
      [] OTHER -> "output_path"

StageSuffix(name) ==
    CASE name = "omr" -> ".musicxml"
      [] name \in {"conversion", "transcription"} -> ".mid"
      [] name = "synthesis" -> ".mp3"
      [] OTHER -> ".pdf"

\* C31: within one job the stages run strictly one after the other and
\* without retry: the stages invoked so far are a prefix of the pipeline's
\* fixed order (so each is invoked at most once), a stage is invoked only
\* when every stage before it has returned, and it works on the artifact
\* the stage before it returned: its own result is named after that input.
C31_StagesInOrder ==
    /\ [](\A j \in DOMAIN task :
             running = j =>
                 /\ IsPrefix(run.stages, StageOrder(task[j].kind))
                 /\ run.failed_at # None
                    => run.failed_at[1].stage = run.stages[Len(run.stages)])
    /\ [][\A j \in DOMAIN task :
             (running = j /\ running' = j /\ Len(run'.stages) = Len(run.stages) + 1) =>
                 LET name == run'.stages[Len(run'.stages)]
                     input == StageInput(j, name)
                 IN  /\ run.failed_at = None
                     /\ input # None
                     /\ \A k \in 1..Len(run.stages) :
                          task[j][StageResult(run.stages[k])] # None
                     /\ run'.failed_at = None
                        => /\ task'[j][StageResult(name)] # None
                           /\ task'[j][StageResult(name)][1].ext = StageSuffix(name)
                           /\ \E tag \in {"", "_converted"} :
                                task'[j][StageResult(name)][1].stem = input[1].stem \o tag]_vars

\* a run whose three stages were invoked in order and all returned
C31_Witness ==
    \E j \in DOMAIN task :
        /\ running = j
        /\ run.stages = <<"omr", "conversion", "synthesis">>
        /\ run.failed_at = None
        /\ task[j].output_path # None

\* the response to the upload that created job j has not been sent yet
UploadResponsePending(j) ==
    /\ response # None
    /\ response[1].job_id = Some(j)
    /\ response[1].detail = "uploaded"

\* C32: for every upload, the job record exists with status uploaded and
\* the response carrying the job ID has been returned before the first
\* stage of the job is invoked and before any status callback is applied:
\* the accepted upload leaves the record, the queued task and the response;
\* while the response is pending or the task is queued the record is as
\* created; and the task leaves the queue only with the response sent.
C32_ResponseBeforeRun ==
    /\ [][UploadAccepted =>
            \E id \in DOMAIN jobs' \ DOMAIN jobs :
                /\ response' = Some(Response(200, Some(id), "uploaded"))
                /\ id \in DOMAIN task' /\ task'[id].pc = "scheduled"]_vars
    /\ [](\A j \in DOMAIN task :
             (UploadResponsePending(j) \/ task[j].pc = "scheduled") =>
                 /\ task[j].pc = "scheduled"
                 /\ run.job # j
                 /\ jobs[j].status = "uploaded"
                 /\ jobs[j].step = None
                 /\ jobs[j].progress = 0)
    /\ [][\A j \in DOMAIN task :
             (j \in DOMAIN task' /\ task[j].pc = "scheduled" /\ task'[j].pc # "scheduled")
                 => response = None /\ jobs[j].status = "uploaded"]_vars

\* the first stage of a job is being invoked, its upload long answered
C32_Witness ==
    \E j \in DOMAIN task :
        /\ running = j
        /\ task[j].pc \in {"omr", "transcription"}
        /\ run.callbacks # <<>>
        /\ response = None

\* the artifacts one stage of job j handed to the next
HandedOver(j) ==
    IF task[j].kind = "omr"
    THEN {task[j].musicxml_path[1], task[j].midi_path[1]}
    ELSE {task[j].midi_path[1]}

\* the last payload handed to the status callback in this run is `completed`
CompletedIssued ==
    /\ run.callbacks # <<>>
    /\ run.callbacks[Len(run.callbacks)].status = "completed"

\* C33: on a successful run with the cleanup flag enabled, the artifacts
\* handed between stages (image/PDF-to-audio: the notation file of stage 1
\* and the note file of stage 2; audio-to-document: the note file of
\* stage 1) are deleted before the completed callback is issued, and the
\* final artifact returned by process exists at that moment.
C33_IntermediatesGoneAtCompleted ==
    /\ [](\A j \in DOMAIN task :
             (cleanup_files /\ running = j /\ task[j].pc \in {"completed_cb", "returned"}) =>
                 /\ \A p \in HandedOver(j) : ~exists(files, p)
                 /\ task[j].output_path # None
                 /\ exists(files, task[j].output_path[1])
                 /\ task[j].output_path[1] \notin HandedOver(j))
    /\ [][\A j \in DOMAIN task :
             (running = j /\ running' = j /\ ~CompletedIssued /\ CompletedIssued') =>
                 /\ task[j].pc = "completed_cb"
                 /\ run.failed_at = None
                 /\ files' = files
                 /\ run'.ret = task[j].output_path]_vars

\* an image-to-audio run with the flag enabled has issued the completed
\* callback
C33_Witness ==
    \E j \in DOMAIN task :
        /\ cleanup_files
        /\ running = j
        /\ task[j].kind = "omr"
        /\ task[j].pc = "returned"
        /\ CompletedIssued
        /\ run.ret # None /\ exists(files, run.ret[1])

\* the copy of the note file of job j that carries the program change
InstrumentCopy(j) == OutputPath(task[j].midi_path[1], "_instrument", ".mid")

\* C34: deletion of artifacts is governed by the cleanup flag: with the
\* flag disabled a pipeline run deletes no file, so every file created
\* during the run still exists when the run ends, on success and on
\* failure.  No step of a run removes a file, and the audio that was
\* rendered from the copy with the program change still has that copy next
\* to it.  Refuted: midi_to_audio unlinks the copy whatever the flag says.
C34_FlagGovernsDeletion ==
    /\ [][(~cleanup_files /\ running # NoJob) =>
              DOMAIN files \subseteq DOMAIN files']_vars
    /\ [](\A j \in DOMAIN task :
             (/\ ~cleanup_files
              /\ task[j].output_path # None
              /\ task[j].kind = "omr"
              /\ exists(files, task[j].output_path[1])
              /\ files[task[j].output_path[1]].program # None)
                 => exists(files, InstrumentCopy(j)))

\* the records of the registry other than that of job_id are the same in J
\* and K
OthersSame(J, K, job_id) ==
    /\ DOMAIN K = DOMAIN J
    /\ \A other \in DOMAIN J \ {job_id} : K[other] = J[other]

\* C35: mark_failed(id, error) on an existing job sets status to failed and
\* error to the message and leaves progress, step, output_path, type,
\* filename and upload_path unchanged; mark_completed(id, outputPath) sets
\* status to completed, progress to 100 and output_path to the path and
\* leaves error, step, type, filename and upload_path unchanged.  Both are
\* no-ops for an ID not in the registry.
C35_MarkFrames ==
    \A job_id \in JobIds :
        LET F == mark_failed(jobs, job_id, "boom")
            C == mark_completed(jobs, job_id, RegistryPath)
        IN  IF job_id \in DOMAIN jobs
            THEN /\ OthersSame(jobs, F, job_id)
                 /\ F[job_id].status = "failed" /\ F[job_id].status_enum
                 /\ F[job_id].error = Some("boom")
                 /\ \A key \in {"progress", "step", "output_path", "type",
                                "filename", "upload_path"} :
                        F[job_id][key] = jobs[job_id][key]
                 /\ OthersSame(jobs, C, job_id)
                 /\ C[job_id].status = "completed" /\ C[job_id].status_enum
                 /\ C[job_id].progress = 100
                 /\ C[job_id].output_path = Some(RegistryPath)
                 /\ \A key \in {"error", "step", "type", "filename", "upload_path"} :
                        C[job_id][key] = jobs[job_id][key]
            ELSE F = jobs /\ C = jobs

\* a job that had progress, a step and an output path was marked failed,
\* and an ID of the registry is still unused
C35_Witness ==
    /\ DOMAIN jobs # JobIds
    /\ \E job_id \in DOMAIN jobs :
        /\ jobs[job_id].status = "failed"
        /\ jobs[job_id].error = Some("boom")
        /\ jobs[job_id].progress = 100
        /\ jobs[job_id].output_path = Some(RegistryPath)
        /\ jobs[job_id].step # None

\* the messages of the extension check of the first stage processors
UnsupportedFormat ==
    {"Unsupported file format: " \o filename.ext : filename \in Filenames}

\* C36: every upload accepted by the extension check of the transport
\* layer is also accepted by the extension check of the first stage
\* processor of its pipeline: no job that was created fails in stage 1 with
\* an unsupported-format error, for both pipeline kinds, in the legacy app
\* and in the refactored routes.  Refuted: the legacy audio upload accepts
\* .flac, which the transcription processor rejects.
C36_AcceptedUploadsSupported ==
    \A j \in DOMAIN task :
        /\ task[j].exc # None => task[j].exc[1].msg \notin UnsupportedFormat
        /\ jobs[j].error # None => jobs[j].error[1] \notin UnsupportedFormat

\* the record of job j was deleted while its background task was known
Deleted(j) == j \in DOMAIN task /\ j \notin DOMAIN jobs

\* C37: delete_job(id) returns true exactly when the ID was in the
\* registry, removes only that record, and afterwards get_job(id) returns
\* absent; the status callbacks, mark_completed and mark_failed that a
\* still-running pipeline issues later for the deleted ID are no-ops and
\* never re-create the record.  No operation of the normal flow (upload,
\* pipeline run, status, download) removes a job, so a failed job stays
\* queryable.
C37_DeleteJob ==
    /\ [](\A job_id \in JobIds :
             LET d == delete_job(jobs, job_id)
             IN  /\ d.ret = (job_id \in DOMAIN jobs)
                 /\ DOMAIN d.jobs = DOMAIN jobs \ {job_id}
                 /\ \A other \in DOMAIN d.jobs : d.jobs[other] = jobs[other]
                 /\ get_job(d.jobs, job_id) = None
                 /\ mark_completed(d.jobs, job_id, RegistryPath) = d.jobs
                 /\ mark_failed(d.jobs, job_id, "boom") = d.jobs
                 /\ update_job(d.jobs, job_id, conversion_payload) = d.jobs)
    /\ [][\A j \in DOMAIN task :
             Deleted(j) =>
                 /\ j \notin DOMAIN jobs'
                 /\ (running = j /\ calls' = calls) => jobs' = jobs]_vars
    /\ [][calls' = calls => DOMAIN jobs \subseteq DOMAIN jobs']_vars
    /\ [][\A j \in DOMAIN jobs :
             (jobs[j].status = "failed" /\ calls' = calls) =>
                 get_job(jobs', j) # None]_vars

\* the pipeline of a job whose record was deleted ran to its end
C37_Witness ==
    \E j \in DOMAIN task :
        /\ Deleted(j)
        /\ running = j
        /\ task[j].pc = "finished"
        /\ run.callbacks # <<>>
        /\ get_job(jobs, j) = None

\* the accept/reject decision of each application's upload handler
AcceptedBy(a, kind, filename) ==
    IF a = "legacy"
    THEN lower(suffix(filename)) \in
             (IF kind = "omr" THEN legacy_omr_allowed_extensions
              ELSE legacy_amt_allowed_extensions)
    ELSE validate_file_extension(filename,
             IF kind = "omr" THEN omr_allowed_extensions ELSE amt_allowed_extensions)

\* the observable state of a job record
Observable(j) ==
    [status |-> jobs[j].status, step |-> jobs[j].step, progress |-> jobs[j].progress,
     error |-> jobs[j].error # None, output_path |-> jobs[j].output_path # None]

\* the last payload of the run so far that carries `key`, if any
LastWith(key) ==
    LET at == {k \in 1..Len(run.callbacks) : key \in DOMAIN run.callbacks[k]}
    IN  IF at = {} THEN None
        ELSE Some(run.callbacks[CHOOSE k \in at : \A other \in at : other <= k][key])

\* the observable state written without reference to the application: what
\* the payloads of the run so far and the position of the caller give
ExpectedObservable(j) ==
    LET pc == task[j].pc
    IN  [status |-> CASE pc = "finished" /\ run.ret # None -> "completed"
                      [] pc \in {"finished", "set_error"} /\ run.exc # None -> "failed"
                      [] LastWith("status") # None -> LastWith("status")[1]
                      [] OTHER -> "uploaded",
         step |-> IF LastWith("step") = None THEN None ELSE LastWith("step")[1],
         progress |-> CASE pc = "finished" /\ run.ret # None -> 100
                        [] LastWith("progress") # None -> LastWith("progress")[1]
                        [] OTHER -> 0,
         error |-> LastWith("error") # None \/ (pc = "finished" /\ run.exc # None),
         output_path |-> pc \in {"finished", "set_status"} /\ run.ret # None]

\* C38: the legacy app and the refactored routes are equivalent on the job
\* lifecycle: for the same upload (pipeline kind, filename, instrument) and
\* the same outcomes of the stages both take the same accept/reject
\* decision and produce the same sequence of observable job states (status,
\* step, progress, whether error is set, whether output_path is set).
\* Every upload one application accepted is accepted by the other, and the
\* observable state is the same function of the run in both.  Refuted: the
\* legacy audio upload accepts .flac, the refactored route rejects it.
C38_LegacyEquivalent ==
    /\ \A j \in DOMAIN jobs :
          AcceptedBy("legacy", jobs[j].type, jobs[j].filename)
              <=> AcceptedBy("refactored", jobs[j].type, jobs[j].filename)
    /\ \A j \in DOMAIN task : running = j => Observable(j) = ExpectedObservable(j)

====
